---- MODULE Spec2Model ----
(***************************************************************************)
(* Model of the NestJS orchestrator of travel-agent, as far as it is       *)
(* implemented: Clerk webhook ingestion (WebhookController,                *)
(* WebhookService) driving UserService over the Prisma user table, the     *)
(* start-up validation of the environment (validateEnv), RedisService's    *)
(* connection life cycle, RedisController's cache refresh and              *)
(* ClerkStrategy's token validation.                                       *)
(*                                                                         *)
(* Every request is handled by an async handler; each `await` on the       *)
(* database is a separate step, so handlers of concurrent requests         *)
(* interleave between their reads and their writes.                        *)
(*                                                                         *)
(* The Session Stream Relay of spec.md (Thread Registry, Execution State   *)
(* Store, Event Multiplexer, Interrupt/Approval Coordinator, Session       *)
(* Orchestrator) has no code in the repository: its own README lists chat  *)
(* streaming, thread persistence, checkpointing and the approval flow      *)
(* under "What's missing".  Nothing of it is modelled here.                *)
(***************************************************************************)
EXTENDS Integers, Sequences, FiniteSets, TLC

\* ------------------------------------------------------------------ bounds
NumProcs == 2          \* requests in flight at once
MaxRequests == 3       \* webhook requests received in one run
MaxRefreshes == 2      \* POST /cache/refresh requests received in one run

Procs == 1..NumProcs

\* ------------------------------------------------------------------ values
NULL == "<null>"       \* JavaScript null / undefined
ClerkIds == {"user_1"}

\* ClerkWebhookEventType, the three handled kinds and one unhandled kind
USER_CREATED == "user.created"
USER_UPDATED == "user.updated"
USER_DELETED == "user.deleted"
SESSION_CREATED == "session.created"
ClerkWebhookEventType == {USER_CREATED, USER_UPDATED, USER_DELETED, SESSION_CREATED}

EmailLists ==
    { <<>>,
      << [id |-> "e1", email_address |-> "a@x.io"],
         [id |-> "e2", email_address |-> "b@x.io"] >> }

\* ClerkUser, restricted to the fields UserService reads
ClerkUser ==
    [ id : ClerkIds,
      email_addresses : EmailLists,
      primary_email_address_id : {NULL, "e2"},
      first_name : {NULL, "Ann"},
      last_name : {"", "Lee"} ]

\* the payloads the webhook requests carry: no address at all, a primary
\* address, addresses without a primary one; no name, one name, both names
Payloads ==
    { d \in ClerkUser :
        \/ d.email_addresses = <<>> /\ d.primary_email_address_id = NULL
              /\ d.first_name = NULL /\ d.last_name = ""
        \/ d.email_addresses # <<>> /\ d.primary_email_address_id = "e2"
              /\ d.first_name = "Ann" /\ d.last_name = "Lee"
        \/ d.email_addresses # <<>> /\ d.primary_email_address_id = NULL
              /\ d.first_name = "Ann" /\ d.last_name = ""
        \/ d.email_addresses # <<>> /\ d.primary_email_address_id = "e2"
              /\ d.first_name = NULL /\ d.last_name = "Lee" }

\* the svix headers of a webhook request (NULL: header not sent) and whether
\* the payload carries the signature these headers announce
SvixRequests ==
    { r \in [ svixId : {NULL, "msg_1"}, svixTimestamp : {NULL, "1700000000"},
              svixSignature : {NULL, "v1,sig"}, signed : BOOLEAN ] :
        r.signed => (r.svixId # NULL /\ r.svixTimestamp # NULL /\ r.svixSignature # NULL) }

\* ------------------------------------------------------------------ helpers
\* Array.prototype.find: the elements satisfying the test, first one first
FindEmail(list, primaryId) == SelectSeq(list, LAMBDA e : e.id = primaryId)

\* primaryEmail?.email_address || ''
extractEmailFromWebhook(userData) ==
    LET primaryEmail == FindEmail(userData.email_addresses,
                                  userData.primary_email_address_id)
    IN  IF primaryEmail = <<>> THEN "" ELSE Head(primaryEmail).email_address

\* `${firstName} ${lastName}`.trim() || null, for names without outer blanks
extractNameFromWebhook(userData) ==
    LET firstName == IF userData.first_name = NULL THEN "" ELSE userData.first_name
        lastName  == IF userData.last_name = NULL THEN "" ELSE userData.last_name
        fullName  == IF firstName = "" THEN lastName
                     ELSE IF lastName = "" THEN firstName
                     ELSE firstName \o " " \o lastName
    IN  IF fullName = "" THEN NULL ELSE fullName

\* ------------------------------------------------------------------ state
VARIABLES
    users,      \* the Prisma user table: a function from the ids present to rows
    pc,         \* where each handler stands
    event,      \* the verified ClerkWebhookEvent a handler works on
    existing,   \* the handler's local existingUser (result of findUserById)
    response,   \* what the controller answered to the handler's request
    served,     \* webhook requests received so far
    request,    \* the svix headers and signature of the handler's request
    returned,   \* the user record UserService returned to the handler's call
    env,        \* the process environment handed to validateEnv
    config,     \* validateEnv's outcome
    auth,       \* ClerkStrategy.validate: each request's header, position, outcome
    redis,      \* RedisService: its fields and its client's connection
    refresh     \* RedisController.refreshCache: its position and its answer

webhookVars == <<users, pc, event, existing, response, served, request, returned>>
envVars == <<env, config>>
redisVars == <<redis, refresh>>
vars == <<users, pc, event, existing, response, served, request, returned, env,
          config, auth, redis, refresh>>

NoEvent == [type |-> NULL]
NoUser == [id |-> NULL]     \* findUnique's null
NoRequest == [svixId |-> NULL, svixTimestamp |-> NULL, svixSignature |-> NULL,
              signed |-> FALSE]

InitWebhook ==
    /\ users = << >>
    /\ pc = [p \in Procs |-> "idle"]
    /\ event = [p \in Procs |-> NoEvent]
    /\ existing = [p \in Procs |-> NoUser]
    /\ response = [p \in Procs |-> NULL]
    /\ served = 0
    /\ request = [p \in Procs |-> NoRequest]
    /\ returned = [p \in Procs |-> NoUser]

\* the controller's answers
SUCCESS == "success"
MISSING_HEADERS == "BadRequest: Missing svix headers"
INVALID_SIGNATURE == "BadRequest: Invalid webhook signature"

\* the handler ends: user is what createUser or updateUser returned
\* ({ user }), NoUser when the call threw or returns nothing
FinishWith(p, answer, user) ==
    /\ pc' = [pc EXCEPT ![p] = "idle"]
    /\ event' = [event EXCEPT ![p] = NoEvent]
    /\ existing' = [existing EXCEPT ![p] = NoUser]
    /\ response' = [response EXCEPT ![p] = answer]
    /\ returned' = [returned EXCEPT ![p] = user]

Finish(p, answer) == FinishWith(p, answer, NoUser)

\* if (!svixId || !svixTimestamp || !svixSignature)
MissingSvixHeaders(r) ==
    r.svixId = NULL \/ r.svixTimestamp = NULL \/ r.svixSignature = NULL

\* the controller with the Svix check left out
VerifyAnything(r) == TRUE

\* new Webhook(webhookSecret).verify(JSON.stringify(payload), headers):
\* returns the event, or throws when the signature does not match
Verify(r) == r.signed

\* WebhookController.handleClerkWebhook up to the first database await:
\* the header check, the Svix verification, WebhookService.handleWebhook's
\* dispatch on the event type.
handleClerkWebhook(p) ==
    /\ pc[p] = "idle"
    /\ served < MaxRequests
    /\ served' = served + 1
    /\ \E r \in SvixRequests :
          /\ request' = [request EXCEPT ![p] = r]
          /\ IF MissingSvixHeaders(r) THEN
                 /\ Finish(p, MISSING_HEADERS)
                 /\ UNCHANGED users
             ELSE IF ~Verify(r) THEN
                 \* wh.verify throws, the catch answers 400
                 /\ Finish(p, INVALID_SIGNATURE)
                 /\ UNCHANGED users
             ELSE \E type \in ClerkWebhookEventType, data \in Payloads :
                 IF type = SESSION_CREATED THEN
                     \* default branch of the switch: logged, nothing done
                     /\ Finish(p, SUCCESS)
                     /\ UNCHANGED users
                 ELSE
                     /\ event' = [event EXCEPT ![p] = [type |-> type, data |-> data]]
                     /\ pc' = [pc EXCEPT ![p] =
                                   CASE type = USER_CREATED -> "create_find"
                                     [] type = USER_UPDATED -> "update_find"
                                     [] type = USER_DELETED -> "delete_find"]
                     /\ response' = [response EXCEPT ![p] = NULL]
                     /\ returned' = [returned EXCEPT ![p] = NoUser]
                     /\ UNCHANGED <<users, existing>>

\* the table with the row of id added
Put(table, id, row) ==
    [i \in DOMAIN table \cup {id} |-> IF i = id THEN row ELSE table[i]]

\* findUserById: prisma.user.findUnique
findUserById(clerkId) ==
    IF clerkId \in DOMAIN users THEN users[clerkId] ELSE NoUser

\* createUser without the early return of lines 28-31
createUser_find_unchecked(p) ==
    /\ pc[p] = "create_find"
    /\ pc' = [pc EXCEPT ![p] = "create_write"]
    /\ existing' = [existing EXCEPT ![p] = findUserById(event[p].data.id)]
    /\ UNCHANGED <<users, event, response, served, request, returned>>

\* createUser, line 27: await this.findUserById(clerkId)
createUser_find(p) ==
    /\ pc[p] = "create_find"
    /\ LET found == findUserById(event[p].data.id)
       IN  IF found # NoUser
           THEN /\ FinishWith(p, SUCCESS, found)   \* return { user: existingUser }
           ELSE /\ pc' = [pc EXCEPT ![p] = "create_write"]
                /\ existing' = [existing EXCEPT ![p] = found]
                /\ UNCHANGED <<event, response, returned>>
    /\ UNCHANGED <<users, served, request>>

\* createUser, line 36: await this.prisma.user.create(...).  Prisma rejects
\* a second row with the same primary key (P2002); the error propagates to
\* the controller's catch.
createUser_write(p) ==
    /\ pc[p] = "create_write"
    /\ LET d == event[p].data
       IN  IF d.id \in DOMAIN users
           THEN /\ Finish(p, INVALID_SIGNATURE)
                /\ UNCHANGED users
           ELSE /\ users' = Put(users, d.id,
                                 [id |-> d.id,
                                  email |-> extractEmailFromWebhook(d),
                                  name |-> extractNameFromWebhook(d)])
                /\ FinishWith(p, SUCCESS, users'[d.id])    \* return { user }
    /\ UNCHANGED <<served, request>>

\* updateUser, line 54: await this.findUserById(clerkId); absent -> createUser
updateUser_find(p) ==
    /\ pc[p] = "update_find"
    /\ LET found == findUserById(event[p].data.id)
       IN  /\ pc' = [pc EXCEPT ![p] =
                        IF found = NoUser THEN "create_find" ELSE "update_write"]
           /\ existing' = [existing EXCEPT ![p] = found]
    /\ UNCHANGED <<users, event, response, served, request, returned>>

\* updateUser, line 63: await this.prisma.user.update(...).  Prisma throws
\* P2025 when the row is gone.
updateUser_write(p) ==
    /\ pc[p] = "update_write"
    /\ LET d == event[p].data
       IN  IF d.id \notin DOMAIN users
           THEN /\ Finish(p, INVALID_SIGNATURE)
                /\ UNCHANGED users
           ELSE /\ users' = [users EXCEPT ![d.id] =
                                 [@ EXCEPT !.email = extractEmailFromWebhook(d),
                                           !.name = extractNameFromWebhook(d)]]
                /\ FinishWith(p, SUCCESS, users'[d.id])    \* return { user }
    /\ UNCHANGED <<served, request>>

\* deleteUser, line 81: await this.findUserById(clerkId)
deleteUser_find(p) ==
    /\ pc[p] = "delete_find"
    /\ LET found == findUserById(event[p].data.id)
       IN  IF found = NoUser
           THEN /\ Finish(p, SUCCESS)      \* warn and return
           ELSE /\ pc' = [pc EXCEPT ![p] = "delete_write"]
                /\ existing' = [existing EXCEPT ![p] = found]
                /\ UNCHANGED <<event, response, returned>>
    /\ UNCHANGED <<users, served, request>>

\* deleteUser, line 87: await this.prisma.user.delete(...).  Prisma throws
\* P2025 when the row is gone.
deleteUser_write(p) ==
    /\ pc[p] = "delete_write"
    /\ LET d == event[p].data
       IN  IF d.id \notin DOMAIN users
           THEN /\ Finish(p, INVALID_SIGNATURE)
                /\ UNCHANGED users
           ELSE /\ users' = [i \in DOMAIN users \ {d.id} |-> users[i]]
                /\ Finish(p, SUCCESS)
    /\ UNCHANGED <<served, request>>

NextWebhook ==
    \E p \in Procs :
        \/ handleClerkWebhook(p)
        \/ createUser_find(p)
        \/ createUser_write(p)
        \/ updateUser_find(p)
        \/ updateUser_write(p)
        \/ deleteUser_find(p)
        \/ deleteUser_write(p)

\* ------------------------------------------------------------------ at rest
\* ClerkStrategy with no request in hand
NO_OUTCOME == [kind |-> "none"]
IdleAuth == [pc |-> "idle", authorization |-> << >>, keyFound |-> FALSE,
             result |-> NO_OUTCOME]
QuietAuth == auth = [p \in Procs |-> IdleAuth]

\* the REDIS_URL values a validated configuration can hold
RedisUrls == {NULL, "http://localhost:6379"}
CacheKeys == {"k1", "k2", "k3"}

\* RedisService as constructed: client = null, isConnected = false.
\* connect is the promise of client.connect(), isReady the client's own
\* isReady, keys what the Redis server stores.
NewRedisService(url, stored) ==
    [ redisUrl |-> url, pc |-> "constructed", outcome |-> "none",
      client |-> "null", connect |-> "none", isReady |-> FALSE,
      isConnected |-> FALSE, keys |-> stored, last |-> "none" ]
\* RedisController with no request in hand
IdleRefresh == [pc |-> "idle", response |-> NULL, calls |-> 0]
QuietRedis == redis = NewRedisService(NULL, {}) /\ refresh = IdleRefresh

\* ------------------------------------------------------------------ validateEnv
\* JavaScript numbers, as far as validateEnv meets them
Num(n) == [nan |-> FALSE, n |-> n]
NaN == [nan |-> TRUE, n |-> 0]

\* Number(s), for the PORT strings of EnvInputs
ToNumber(s) ==
    CASE s = "3006" -> Num(3006)
      [] s = "0"    -> Num(0)
      [] s = ""     -> Num(0)
      [] OTHER      -> NaN

\* enum Environment
Environment == {"development", "production", "test"}

\* validator.js isURL with require_tld: false, on the strings of EnvInputs
UrlShaped == {"https://clerk.example/.well-known/jwks.json", "http://localhost:6379"}

\* the environments validateEnv is tried on; NULL is a variable that is not set
EnvInputs ==
    [ NODE_ENV : {NULL, "production", "staging"},
      PORT : {NULL, "3006", "0", "abc"},
      DATABASE_URL : {NULL, "", "postgresql://u:p@db:5432/app"},
      CLERK_PUBLISHABLE_KEY : {NULL, "", "pk_test_1"},
      CLERK_SECRET_KEY : {NULL, "", "sk_test_1"},
      CLERK_JWKS_URL : {NULL, "", "jwks", "https://clerk.example/.well-known/jwks.json"},
      CLERK_WEBHOOK_SECRET : {NULL, "", "whsec_1"},
      REDIS_URL : {NULL, "", "localhost", "http://localhost:6379"} ]

\* class EnvironmentVariables: the property initializers
DefaultPort == 3000
DefaultNodeEnv == "development"

\* plainToInstance(EnvironmentVariables, config, {enableImplicitConversion}):
\* a key of the plain object overrides the initializer, PORT is converted to
\* its declared type number, a key that is not set leaves the property as
\* the class initialised it.
plainToInstance(plain) ==
    [ NODE_ENV |-> IF plain.NODE_ENV = NULL THEN DefaultNodeEnv ELSE plain.NODE_ENV,
      PORT |-> IF plain.PORT = NULL THEN Num(DefaultPort) ELSE ToNumber(plain.PORT),
      DATABASE_URL |-> plain.DATABASE_URL,
      CLERK_PUBLISHABLE_KEY |-> plain.CLERK_PUBLISHABLE_KEY,
      CLERK_SECRET_KEY |-> plain.CLERK_SECRET_KEY,
      CLERK_JWKS_URL |-> plain.CLERK_JWKS_URL,
      CLERK_WEBHOOK_SECRET |-> plain.CLERK_WEBHOOK_SECRET,
      REDIS_URL |-> plain.REDIS_URL ]

\* class-validator decorators
IsEnum(v, values) == v \in values
IsNumber(v) == ~v.nan
Min(v, m) == ~v.nan /\ v.n >= m
IsString(v) == v # NULL
\* the decorator left off a property
IsNotEmptyOmitted(v) == TRUE
IsNotEmpty(v) == v # NULL /\ v # ""
IsUrl(v) == v \in UrlShaped

\* validateSync(validatedConfig, {skipMissingProperties: false}): the
\* properties with a failed constraint
validateSync(c) ==
    { k \in {"NODE_ENV", "PORT", "DATABASE_URL", "CLERK_PUBLISHABLE_KEY",
             "CLERK_SECRET_KEY", "CLERK_JWKS_URL", "CLERK_WEBHOOK_SECRET",
             "REDIS_URL"} :
        CASE k = "NODE_ENV" -> ~IsEnum(c.NODE_ENV, Environment)
          [] k = "PORT" -> ~(IsNumber(c.PORT) /\ Min(c.PORT, 1))
          [] k = "DATABASE_URL" ->
                 ~(IsString(c.DATABASE_URL) /\ IsNotEmpty(c.DATABASE_URL))
          [] k = "CLERK_PUBLISHABLE_KEY" ->
                 ~(IsString(c.CLERK_PUBLISHABLE_KEY) /\ IsNotEmpty(c.CLERK_PUBLISHABLE_KEY))
          [] k = "CLERK_SECRET_KEY" ->
                 ~(IsString(c.CLERK_SECRET_KEY) /\ IsNotEmpty(c.CLERK_SECRET_KEY))
          [] k = "CLERK_JWKS_URL" ->
                 ~(IsUrl(c.CLERK_JWKS_URL) /\ IsNotEmpty(c.CLERK_JWKS_URL))
          [] k = "CLERK_WEBHOOK_SECRET" ->
                 ~(IsString(c.CLERK_WEBHOOK_SECRET) /\ IsNotEmpty(c.CLERK_WEBHOOK_SECRET))
          \* @IsOptional: a value that is not set is not validated
          [] k = "REDIS_URL" -> c.REDIS_URL # NULL /\ ~IsUrl(c.REDIS_URL) }

\* validateEnv's outcomes
NOT_VALIDATED == [outcome |-> "pending"]
INVALID_ENV == [outcome |-> "Error: Invalid environment variables"]
Validated(c) == [outcome |-> "returned", value |-> c]

validateEnvResult(plain) ==
    LET validatedConfig == plainToInstance(plain)
        errors == validateSync(validatedConfig)
    IN  IF errors # {} THEN INVALID_ENV ELSE Validated(validatedConfig)

\* the environment before validateEnv ran; the application is not started
QuietEnv ==
    /\ env = [k \in {} |-> NULL]
    /\ config = NOT_VALIDATED

InitEnv ==
    /\ InitWebhook
    /\ QuietAuth
    /\ QuietRedis
    /\ env \in EnvInputs
    /\ config = NOT_VALIDATED

\* ConfigModule.forRoot({validate: validateEnv}) at start-up
validateEnv ==
    /\ config = NOT_VALIDATED
    /\ config' = validateEnvResult(env)
    /\ UNCHANGED <<env, webhookVars, auth, redisVars>>

NextEnv == validateEnv

SpecEnv == InitEnv /\ [][NextEnv]_vars

\* the variables that have to be set, and the one that may be left out
RequiredVariables ==
    {"DATABASE_URL", "CLERK_PUBLISHABLE_KEY", "CLERK_SECRET_KEY",
     "CLERK_JWKS_URL", "CLERK_WEBHOOK_SECRET"}

\* C19: validateEnv throws Error('Invalid environment variables') whenever
\* one of DATABASE_URL, CLERK_PUBLISHABLE_KEY, CLERK_SECRET_KEY,
\* CLERK_JWKS_URL, CLERK_WEBHOOK_SECRET is not set or empty, and it accepts
\* every environment in which these five are valid and REDIS_URL is not set
\* (NODE_ENV and PORT being valid or left to their defaults).
RequiredEnvEnforced ==
    config # NOT_VALIDATED =>
        /\ (\E k \in RequiredVariables : env[k] \in {NULL, ""})
               => config = INVALID_ENV
        /\ ( /\ \A k \in RequiredVariables : env[k] \notin {NULL, ""}
             /\ env.CLERK_JWKS_URL \in UrlShaped
             /\ env.REDIS_URL = NULL
             /\ env.NODE_ENV \in Environment \cup {NULL}
             /\ env.PORT \in {NULL, "3006"} )
               => /\ config.outcome = "returned"
                  /\ config.value.REDIS_URL = NULL

\* an environment with the five set and without REDIS_URL was accepted
RequiredEnvAccepted ==
    /\ config.outcome = "returned"
    /\ env.REDIS_URL = NULL
    /\ \A k \in RequiredVariables : env[k] \notin {NULL, ""}

\* README: "Health: GET /health (default port is 3006)"
DocumentedPort == 3006

\* C20: when PORT is not set, the configuration validateEnv returns has
\* PORT = 3006.
DefaultPortIsDocumented ==
    (config.outcome = "returned" /\ env.PORT = NULL)
        => config.value.PORT = Num(DocumentedPort)

\* ------------------------------------------------------------------ ClerkStrategy
\* A request's Authorization header, as header.split(' ') sees it: the parts
\* between single blanks.  << >> is a request without the header.
AuthorizationHeaders ==
    { << >>, <<"">>, <<"Bearer">>, <<"Bearer", "">>,
      <<"Bearer", "tok_synced">>, <<"Bearer", "tok_unsynced">>,
      <<"Bearer", "tok_forged">>, <<"tok_synced">> }

\* req.headers.authorization?.split(' ').pop()
TokenOf(parts) == IF parts = << >> THEN NULL ELSE parts[Len(parts)]

\* the tokens signed by a key of the JWKS, and the claims they decode to
SignedTokens == {"tok_synced", "tok_unsynced"}
Decoded(token) ==
    [sub |-> "user_1", syncedWithBackend |-> (token = "tok_synced")]

\* validate's outcomes
NO_TOKEN == [kind |-> "UnauthorizedException", message |-> "No token provided"]
INVALID_TOKEN == [kind |-> "UnauthorizedException", message |-> "Invalid token"]
Principal(decodedToken) == [kind |-> "principal", decodedToken |-> decodedToken]

\* jwt.verify(token, this.getSigningKey, {}, callback): err unless the JWKS
\* client delivers the key of the token's kid and the signature matches
Verifies(token, keyFound) == keyFound /\ token \in SignedTokens

\* the callback's (err, decoded) without the `if (err) return reject(err)`
VerifyThenReturnUnchecked(token, keyFound) ==
    IF Verifies(token, keyFound) THEN Principal(Decoded(token))
    ELSE Principal([sub |-> NULL, syncedWithBackend |-> FALSE])

\* lines 44-76: the promise around jwt.verify, return { decodedToken } or
\* the catch's UnauthorizedException('Invalid token')
VerifyThenReturn(token, keyFound) ==
    IF Verifies(token, keyFound) THEN Principal(Decoded(token))
    ELSE INVALID_TOKEN

\* the user tables the webhooks can have left behind
UserTables ==
    { << >> } \cup
    { Put(<< >>, d.id, [id |-> d.id,
                        email |-> extractEmailFromWebhook(d),
                        name |-> extractNameFromWebhook(d)]) : d \in ClerkUser }

\* validate, lines 38-42: the token is taken from the header; without one
\* the request is refused before anything is verified
validate_start(p) ==
    /\ auth[p].pc \in {"idle", "done"}
    /\ \E header \in AuthorizationHeaders :
          LET token == TokenOf(header)
          IN  auth' = [auth EXCEPT ![p] =
                  IF token = NULL \/ token = ""
                  THEN [pc |-> "done", authorization |-> header,
                        keyFound |-> FALSE, result |-> NO_TOKEN]
                  ELSE [pc |-> "verifying", authorization |-> header,
                        keyFound |-> FALSE, result |-> NO_OUTCOME]]
    /\ UNCHANGED <<webhookVars, envVars, redisVars>>

\* validate with the per-request sync of lines 55-71 active:
\* createClerkUserAndSync stores a row for a verified, unsynced subject
validate_verified_syncing(p) ==
    /\ auth[p].pc = "verifying"
    /\ \E keyFound \in BOOLEAN :
          LET token == TokenOf(auth[p].authorization)
              outcome == VerifyThenReturn(token, keyFound)
          IN  /\ auth' = [auth EXCEPT ![p].pc = "done",
                                        ![p].keyFound = keyFound,
                                        ![p].result = outcome]
              /\ users' =
                    IF /\ outcome.kind = "principal"
                       /\ ~outcome.decodedToken.syncedWithBackend
                       /\ outcome.decodedToken.sub \notin DOMAIN users
                    THEN Put(users, outcome.decodedToken.sub,
                             [id |-> outcome.decodedToken.sub,
                              email |-> "", name |-> NULL])
                    ELSE users
    /\ UNCHANGED <<pc, event, existing, response, served, request, returned,
                   envVars, redisVars>>

\* validate, lines 44-76: await the verification, then return the principal
\* or throw; the sync of lines 55-71 is commented out
validate_verified(p) ==
    /\ auth[p].pc = "verifying"
    /\ \E keyFound \in BOOLEAN :
          auth' = [auth EXCEPT ![p].pc = "done",
                                ![p].keyFound = keyFound,
                                ![p].result =
                                    VerifyThenReturn(TokenOf(auth[p].authorization),
                                                     keyFound)]
    /\ UNCHANGED <<webhookVars, envVars, redisVars>>

InitAuth ==
    /\ users \in UserTables
    /\ pc = [p \in Procs |-> "idle"]
    /\ event = [p \in Procs |-> NoEvent]
    /\ existing = [p \in Procs |-> NoUser]
    /\ response = [p \in Procs |-> NULL]
    /\ served = 0
    /\ request = [p \in Procs |-> NoRequest]
    /\ returned = [p \in Procs |-> NoUser]
    /\ QuietEnv
    /\ QuietRedis
    /\ QuietAuth

NextAuth ==
    \E p \in Procs :
        \/ validate_start(p)
        \/ validate_verified(p)

SpecAuth == InitAuth /\ [][NextAuth]_vars

\* C17: validate returns a principal, { decodedToken }, only for a request
\* whose Authorization header carries a token that verifies against the JWKS
\* signing key; without a token it throws UnauthorizedException('No token
\* provided'), on any failed verification UnauthorizedException('Invalid
\* token'); it ends in no other way.
ValidateOutcomes ==
    \A p \in Procs :
        auth[p].pc = "done" =>
            LET header == auth[p].authorization
                carried == IF header = << >> THEN "" ELSE header[Len(header)]
                verified == auth[p].keyFound /\ carried \in SignedTokens
            IN  /\ auth[p].result.kind \in {"principal", "UnauthorizedException"}
                /\ auth[p].result.kind = "principal" =>
                       /\ verified
                       /\ auth[p].result = [kind |-> "principal",
                                            decodedToken |-> Decoded(carried)]
                /\ carried = "" => auth[p].result = NO_TOKEN
                /\ (carried # "" /\ ~verified) => auth[p].result = INVALID_TOKEN

\* one request was answered with a principal, another with 'Invalid token'
ValidateBothWays ==
    \E p, q \in Procs :
        /\ auth[p].pc = "done" /\ auth[p].result.kind = "principal"
        /\ auth[q].pc = "done" /\ auth[q].result = INVALID_TOKEN

\* C18: the per-request user sync is inactive: no step of validate reads or
\* writes a user record, whatever the token's claims; authenticating a
\* request leaves the user table as it was.
ValidateLeavesUsers == [][users' = users]_vars

\* a verified token that is not marked synced, for a subject without a row:
\* the request the commented-out sync would have stored a user for
UnsyncedPrincipalNoRow ==
    \E p \in Procs :
        /\ auth[p].pc = "done"
        /\ auth[p].result.kind = "principal"
        /\ ~auth[p].result.decodedToken.syncedWithBackend
        /\ auth[p].result.decodedToken.sub \notin DOMAIN users

\* ------------------------------------------------------------------ RedisService
\* isAvailable(): this.isConnected && this.client?.isReady === true
isAvailable ==
    redis.isConnected /\ redis.client = "created" /\ redis.isReady

\* getClientOrThrow(): the client, unless !this.client?.isReady || !this.isConnected
getClientOrThrow ==
    ~(redis.client = "null" \/ ~redis.isReady) /\ redis.isConnected

\* onModuleInit, lines 23-31, and connect, lines 38-54: without REDIS_URL it
\* returns at once; otherwise the client is created, the handlers are
\* registered and client.connect() is awaited.  createClient throws on a
\* URL it cannot parse, which the try of onModuleInit catches.
onModuleInit ==
    /\ redis.pc = "constructed"
    /\ IF redis.redisUrl = NULL \/ redis.redisUrl = ""
       THEN redis' = [redis EXCEPT !.pc = "done", !.outcome = "returned"]
       ELSE \E parsed \in BOOLEAN :
               IF parsed
               THEN redis' = [redis EXCEPT !.pc = "connecting",
                                           !.client = "created",
                                           !.connect = "pending"]
               ELSE redis' = [redis EXCEPT !.pc = "done",
                                           !.outcome = "returned",
                                           !.connect = "rejected"]
    /\ UNCHANGED <<webhookVars, envVars, auth, refresh>>

\* the client's 'connect' event: the socket is open, nothing else is known
client_on_connect ==
    /\ redis.client = "created"
    /\ redis.connect \in {"pending", "resolved"}
    /\ ~redis.isConnected
    /\ redis' = [redis EXCEPT !.isConnected = TRUE]
    /\ UNCHANGED <<webhookVars, envVars, auth, refresh>>

\* the client's 'error' event: the socket is lost, the client not ready
client_on_error ==
    /\ redis.client = "created"
    /\ redis.connect \in {"pending", "resolved"}
    /\ redis.isConnected \/ redis.isReady
    /\ redis' = [redis EXCEPT !.isConnected = FALSE, !.isReady = FALSE]
    /\ UNCHANGED <<webhookVars, envVars, auth, refresh>>

\* the client is ready again after a reconnect
client_ready ==
    /\ redis.connect = "resolved"
    /\ ~redis.isReady
    /\ redis' = [redis EXCEPT !.isReady = TRUE]
    /\ UNCHANGED <<webhookVars, envVars, auth, refresh>>

\* await this.client.connect() resolves: line 55, onModuleInit returns
connect_resolved ==
    /\ redis.pc = "connecting"
    /\ redis' = [redis EXCEPT !.pc = "done", !.outcome = "returned",
                              !.connect = "resolved", !.isReady = TRUE]
    /\ UNCHANGED <<webhookVars, envVars, auth, refresh>>

\* onModuleInit without its try / catch: the rejection leaves the hook
connect_rejected_uncaught ==
    /\ redis.pc = "connecting"
    /\ redis' = [redis EXCEPT !.pc = "done", !.outcome = "threw",
                              !.connect = "rejected", !.isReady = FALSE]
    /\ UNCHANGED <<webhookVars, envVars, auth, refresh>>

\* await this.client.connect() rejects: the catch of lines 32-34 logs the
\* error and onModuleInit returns
connect_rejected ==
    /\ redis.pc = "connecting"
    /\ redis' = [redis EXCEPT !.pc = "done", !.outcome = "returned",
                              !.connect = "rejected", !.isReady = FALSE]
    /\ UNCHANGED <<webhookVars, envVars, auth, refresh>>

\* set(key, value): getClientOrThrow, then the command, which the server
\* carries out or fails
redis_set(key) ==
    /\ redis.pc = "done"
    /\ IF ~getClientOrThrow
       THEN redis' = [redis EXCEPT !.last = "BadRequest: not connected"]
       ELSE \E served_ok \in BOOLEAN :
               redis' = IF served_ok
                        THEN [redis EXCEPT !.keys = @ \cup {key}, !.last = "OK"]
                        ELSE [redis EXCEPT !.last = "command failed"]
    /\ UNCHANGED <<webhookVars, envVars, auth, refresh>>

\* del(key)
redis_del(key) ==
    /\ redis.pc = "done"
    /\ IF ~getClientOrThrow
       THEN redis' = [redis EXCEPT !.last = "BadRequest: not connected"]
       ELSE \E served_ok \in BOOLEAN :
               redis' = IF served_ok
                        THEN [redis EXCEPT !.keys = @ \ {key}, !.last = "OK"]
                        ELSE [redis EXCEPT !.last = "command failed"]
    /\ UNCHANGED <<webhookVars, envVars, auth, refresh>>

\* flushAll()
redis_flushAll ==
    /\ redis.pc = "done"
    /\ IF ~getClientOrThrow
       THEN redis' = [redis EXCEPT !.last = "BadRequest: not connected"]
       ELSE \E served_ok \in BOOLEAN :
               redis' = IF served_ok
                        THEN [redis EXCEPT !.keys = {}, !.last = "OK"]
                        ELSE [redis EXCEPT !.last = "command failed"]
    /\ UNCHANGED <<webhookVars, envVars, auth, refresh>>

\* RedisController.refreshCache's answers
CLEARED == "cleared: true"
NOT_AVAILABLE == "BadRequest: Redis is not available"
REFRESH_FAILED == "BadRequest: Failed to refresh cache"

\* refreshCache, lines 132-137: the isAvailable check, then
\* redisService.flushAll() up to its await: getClientOrThrow, whose
\* BadRequestException the catch of line 143 would turn into the answer of
\* line 145, and the FLUSHALL command sent to the server.  The application
\* listens only after onModuleInit has returned.
refreshCache ==
    /\ redis.pc = "done"
    /\ refresh.pc = "idle"
    /\ refresh.calls < MaxRefreshes
    /\ refresh' =
          IF ~isAvailable
          THEN [pc |-> "idle", response |-> NOT_AVAILABLE, calls |-> refresh.calls + 1]
          ELSE IF ~getClientOrThrow
          THEN [pc |-> "idle", response |-> REFRESH_FAILED, calls |-> refresh.calls + 1]
          ELSE [pc |-> "flushing", response |-> NULL, calls |-> refresh.calls + 1]
    /\ UNCHANGED <<webhookVars, envVars, auth, redis>>

\* await this.redisService.flushAll() resolves: the server has dropped every
\* key; lines 138-142 answer { cleared: true }
refreshCache_resolved ==
    /\ refresh.pc = "flushing"
    /\ redis' = [redis EXCEPT !.keys = {}, !.last = "OK"]
    /\ refresh' = [refresh EXCEPT !.pc = "idle", !.response = CLEARED]
    /\ UNCHANGED <<webhookVars, envVars, auth>>

\* refreshCache without its try / catch: the command's error leaves the
\* controller as it is
refreshCache_rejected_uncaught ==
    /\ refresh.pc = "flushing"
    /\ \E dropped \in BOOLEAN :
          redis' = [redis EXCEPT !.keys = IF dropped THEN {} ELSE @,
                                 !.last = "command failed"]
    /\ refresh' = [refresh EXCEPT !.pc = "idle", !.response = "Error: command failed"]
    /\ UNCHANGED <<webhookVars, envVars, auth>>

\* await this.redisService.flushAll() rejects (the command failed, or its
\* reply was lost after the server had carried it out): the catch of lines
\* 143-146 answers with a BadRequestException
refreshCache_rejected ==
    /\ refresh.pc = "flushing"
    /\ \E dropped \in BOOLEAN :
          redis' = [redis EXCEPT !.keys = IF dropped THEN {} ELSE @,
                                 !.last = "command failed"]
    /\ refresh' = [refresh EXCEPT !.pc = "idle", !.response = REFRESH_FAILED]
    /\ UNCHANGED <<webhookVars, envVars, auth>>

InitRedis ==
    /\ InitWebhook
    /\ QuietEnv
    /\ QuietAuth
    /\ \E url \in RedisUrls, stored \in SUBSET CacheKeys :
          redis = NewRedisService(url, stored)
    /\ refresh = IdleRefresh

NextRedis ==
    \/ onModuleInit
    \/ client_on_connect
    \/ client_on_error
    \/ client_ready
    \/ connect_resolved
    \/ connect_rejected
    \/ \E key \in CacheKeys : redis_set(key)
    \/ \E key \in CacheKeys : redis_del(key)
    \/ redis_flushAll
    \/ refreshCache
    \/ refreshCache_resolved
    \/ refreshCache_rejected

SpecRedis == InitRedis /\ [][NextRedis]_vars

\* C16: when REDIS_URL is not configured, or the first connection attempt
\* fails, onModuleInit completes without throwing and isAvailable() is false
\* from then on; onModuleInit never throws.
RedisGracefulFallback ==
    /\ redis.outcome # "threw"
    /\ (redis.pc = "done" /\ (redis.redisUrl = NULL \/ redis.connect = "rejected"))
           => (redis.outcome = "returned" /\ ~isAvailable)

\* the connection attempt failed after the socket had opened ('connect' was
\* emitted, so isConnected is still true) and onModuleInit has returned
RedisFailedAfterSocketOpened ==
    /\ redis.pc = "done"
    /\ redis.connect = "rejected"
    /\ redis.isConnected
    /\ redis.outcome = "returned"

\* C21: POST /cache/refresh clears all cache entries.  In every step: a
\* request that arrives while Redis is available calls flushAll and leaves
\* the cache to the command; one that arrives while Redis is not available
\* is answered with a BadRequestException and touches nothing; a flushAll
\* that ends is answered with { cleared: true } only if it succeeded, and
\* then no cache entry is left, and with a BadRequestException if it failed;
\* cleared = true is never answered in any other way.
RefreshCacheContract ==
    [][ /\ refresh'.calls # refresh.calls =>
              /\ redis' = redis
              /\ IF isAvailable
                 THEN refresh'.pc = "flushing" /\ refresh'.response # CLEARED
                 ELSE /\ refresh'.pc = "idle"
                      /\ refresh'.response \in {NOT_AVAILABLE, REFRESH_FAILED}
        /\ (refresh.pc = "flushing" /\ refresh'.pc = "idle") =>
              /\ refresh'.response \in {CLEARED, NOT_AVAILABLE, REFRESH_FAILED}
              /\ refresh'.response = CLEARED =>
                    (redis'.keys = {} /\ redis'.last = "OK")
              /\ redis'.last # "OK" => refresh'.response # CLEARED
        /\ (refresh'.response = CLEARED /\ refresh.response # CLEARED) =>
              refresh.pc = "flushing"
      ]_vars

\* a request found Redis available, its flushAll succeeded, the answer was
\* { cleared: true } and the service is still available
RefreshCleared ==
    /\ refresh.pc = "idle"
    /\ refresh.response = CLEARED
    /\ refresh.calls >= 1
    /\ redis.keys = {}
    /\ isAvailable

\* ------------------------------------------------------------------ webhooks
Init ==
    /\ InitWebhook
    /\ QuietEnv
    /\ QuietAuth
    /\ QuietRedis

Next ==
    /\ NextWebhook
    /\ UNCHANGED <<envVars, auth, redisVars>>

Spec == Init /\ [][Next]_vars

\* C15: webhook handling is gated by the Svix verification.  In every step:
\* a handler is inside WebhookService.handleWebhook only for a request that
\* carries the three svix headers and whose payload passes the verification;
\* the user table changes only by the step of such a handler; and a request
\* that arrives with a header missing or with a failing verification is
\* answered with a BadRequestException at once and changes no user record.
WebhookGatedBySvix ==
    [][ /\ \A p \in Procs :
              pc'[p] # "idle" =>
                  /\ request'[p].svixId # NULL
                  /\ request'[p].svixTimestamp # NULL
                  /\ request'[p].svixSignature # NULL
                  /\ request'[p].signed
        /\ users' # users =>
              \E p \in Procs :
                  /\ pc[p] \in {"create_write", "update_write", "delete_write"}
                  /\ pc'[p] = "idle"
                  /\ request[p].signed
                  /\ request[p].svixId # NULL
                  /\ request[p].svixTimestamp # NULL
                  /\ request[p].svixSignature # NULL
        /\ served' # served =>
              \E p \in Procs :
                  /\ pc[p] = "idle"
                  /\ \A q \in Procs \ {p} :
                        /\ pc'[q] = pc[q]
                        /\ request'[q] = request[q]
                        /\ response'[q] = response[q]
                  /\ ~request'[p].signed =>
                        /\ response'[p] =
                              IF \/ request'[p].svixId = NULL
                                 \/ request'[p].svixTimestamp = NULL
                                 \/ request'[p].svixSignature = NULL
                              THEN MISSING_HEADERS ELSE INVALID_SIGNATURE
                        /\ pc'[p] = "idle"
                        /\ users' = users
      ]_vars

\* a request with all headers and a failing signature was refused while a
\* verified one is about to write, and a user record exists
WebhookRefusedAndAccepted ==
    \E p, q \in Procs :
        /\ request[p].svixSignature # NULL /\ request[p].svixId # NULL
        /\ request[p].svixTimestamp # NULL /\ ~request[p].signed
        /\ response[p] = INVALID_SIGNATURE
        /\ pc[q] \in {"create_write", "update_write", "delete_write"}
        /\ request[q].signed
        /\ users # << >>

\* the row createUser stores for a payload, lines 33-42
RowOf(d) ==
    [id |-> d.id, email |-> extractEmailFromWebhook(d),
     name |-> extractNameFromWebhook(d)]

\* C22: two createUser calls for the same clerkId that run concurrently
\* while no record exists both succeed.  A call that has found no record (it
\* stands before prisma.user.create) can meet a record only if another
\* createUser call stored it meanwhile, so the claim says of every such call
\* of a user.created event: its create step does not fail, the record is
\* stored afterwards, and the call returns it.
ConcurrentCreateUserBothSucceed ==
    [][ \A p \in Procs :
            (pc[p] = "create_write" /\ event[p].type = USER_CREATED
                 /\ pc'[p] = "idle") =>
                /\ response'[p] = SUCCESS
                /\ event[p].data.id \in DOMAIN users'
                /\ returned'[p] = users'[event[p].data.id]
      ]_vars

\* C24: updateUser is an upsert under any interleaving.  In every step in
\* which the call for a user.updated event returns successfully (from its
\* own update, or from the createUser it fell back to), the record of the
\* id exists and holds the email and the name extracted from the payload.
UpdateUserIsUpsert ==
    [][ \A p \in Procs :
            (event[p].type = USER_UPDATED /\ pc[p] # "idle"
                 /\ pc'[p] = "idle" /\ response'[p] = SUCCESS) =>
                /\ event[p].data.id \in DOMAIN users'
                /\ users'[event[p].data.id].email =
                      extractEmailFromWebhook(event[p].data)
                /\ users'[event[p].data.id].name =
                      extractNameFromWebhook(event[p].data)
      ]_vars

\* ------------------------------------------------------------------ one call at a time
\* a webhook request that arrives while no handler is at work and that
\* carries, if it is verified, a user.created event or an unhandled one
handleClerkWebhook_alone(p) ==
    /\ \A q \in Procs : pc[q] = "idle"
    /\ handleClerkWebhook(p)
    /\ event'[p].type \in {NULL, USER_CREATED}

NextCreated ==
    /\ \E p \in Procs :
          \/ handleClerkWebhook_alone(p)
          \/ createUser_find(p)
          \/ createUser_write(p)
    /\ UNCHANGED <<envVars, auth, redisVars>>

SpecCreated == Init /\ [][NextCreated]_vars

\* C23: createUser is idempotent per clerkId when calls do not overlap.  In
\* every step of a sequence of user.created events: the call that creates
\* does so in an empty table (it is the first event), stores exactly the
\* record of its payload's email and name and returns it; a call that meets
\* the record returns that record; and once the record exists no step
\* changes the table.
CreateUserIdempotent ==
    [][ /\ \A p \in Procs :
              /\ (pc[p] = "create_write" /\ pc'[p] = "idle") =>
                    /\ users = << >>
                    /\ DOMAIN users' = {event[p].data.id}
                    /\ users'[event[p].data.id] = RowOf(event[p].data)
                    /\ response'[p] = SUCCESS
                    /\ returned'[p] = users'[event[p].data.id]
              /\ (pc[p] = "create_find" /\ users # << >>) =>
                    /\ pc'[p] = "idle"
                    /\ response'[p] = SUCCESS
                    /\ returned'[p] = users[event[p].data.id]
        /\ users # << >> => users' = users
      ]_vars

\* two calls, one after the other, have returned the one stored record
TwoCallsReturnedTheRecord ==
    \E p, q \in Procs :
        /\ p # q
        /\ pc[p] = "idle" /\ pc[q] = "idle"
        /\ DOMAIN users = {"user_1"}
        /\ returned[p] = users["user_1"]
        /\ returned[q] = users["user_1"]
        /\ users["user_1"].email # ""

\* ------------------------------------------------------------------ typing
TypeOK ==
    /\ DOMAIN users \subseteq ClerkIds
    /\ \A i \in DOMAIN users : users[i].id = i
    /\ served \in 0..MaxRequests
    /\ \A p \in Procs :
          /\ pc[p] \in {"idle", "create_find", "create_write", "update_find",
                        "update_write", "delete_find", "delete_write"}
          /\ request[p] \in SvixRequests
          /\ response[p] \in {NULL, SUCCESS, MISSING_HEADERS, INVALID_SIGNATURE}
          /\ returned[p] = NoUser \/ returned[p].id \in ClerkIds
====
